---- MODULE Spec2Model ----
(***************************************************************************)
(* Model of setup_hydro-radial_initial_conditions.py: the script that      *)
(* recentres an MPAS land-ice mesh on a cell and writes the radially       *)
(* symmetric initial conditions of the hydro-radial test case.             *)
(*                                                                         *)
(* Numbers.  The script computes in double precision; the model computes   *)
(* in fixed point over the integers:                                       *)
(*   - lengths (coordinates, r, r0) are integers in units of 25 m, so      *)
(*     25000.0 m = 1000, 22500.0 m = 900 and 5000.0 m = 200; mesh          *)
(*     coordinates are multiples of 100 units, which makes                 *)
(*     0.5 * (max - min) exact; the square root rounds down to             *)
(*     the unit, as the double-precision square root rounds to a double;   *)
(*   - thickness is in units of 1 m / r0^2, so 500.0 * (1 - (r/r0)^2) is   *)
(*     the integer 500 * (r0^2 - r^2);                                     *)
(*   - velocity is in units of 25 m / (3.14e7 * 22500.0), so               *)
(*     (r - 5000.0) * 100.0 / 3.14e7 / 22500.0 is the integer              *)
(*     (r - 200) * 100;                                                    *)
(*   - layerThicknessFractions is in units of 1/60 and meltInput in units  *)
(*     of 1e-4.                                                            *)
(* Array indices are 1-based here and 0-based in the script; "level 0" or  *)
(* "time 0" of the script is the only time level the model keeps, and the  *)
(* script's last vertical level (index -1) is level nVertLevels.           *)
(***************************************************************************)
EXTENDS Integers, Sequences, FiniteSets, TLC

VARIABLES
    pc,                       \* the statement the script executes next
    run,                      \* 1 in the first run on the file, 2 in the run on its output
    nVertLevels,              \* len(gridfile.dimensions['nVertLevels'])
    xCell, yCell,             \* gridfile.variables[...], one entry per cell
    xEdge, yEdge,
    xVertex, yVertex,
    thickness,                \* thickness[0, cell]
    bedTopography,            \* bedTopography[0, cell]
    layerThicknessFractions,  \* one entry per vertical level
    sfcMassBal,               \* the variable the script names SMB
    meltInput,                \* meltInput[0, cell]
    uReconstructX,            \* uReconstructX[0, cell, level]
    waterThickness,           \* waterThickness[0, cell]
    x0, y0,                   \* centre of the domain
    r,                        \* distance of each cell from the centre
    centerCellIndex,
    xShift, yShift,
    velo,
    written,                  \* <<variable, index, level>> of every element this run assigned
    input,                    \* the file as it was when this run opened it
    firstCenter               \* centerCellIndex of the first run (0 before it is chosen)

vars == <<pc, run, nVertLevels, xCell, yCell, xEdge, yEdge, xVertex, yVertex,
          thickness, bedTopography, layerThicknessFractions, sfcMassBal,
          meltInput, uReconstructX, waterThickness, x0, y0, r,
          centerCellIndex, xShift, yShift, velo, written, input, firstCenter>>

coords == <<xCell, yCell, xEdge, yEdge, xVertex, yVertex>>
fields == <<thickness, bedTopography, layerThicknessFractions, sfcMassBal,
            meltInput, uReconstructX, waterThickness>>
locals == <<x0, y0, r, centerCellIndex, xShift, yShift, velo>>
consts == <<run, nVertLevels, input, firstCenter>>

---------------------------------------------------------------------------
(* Bounds of the model *)
MaxCells == 3
MaxLevels == 2

(* Constants of the script, in the model's units *)
r0 == 1000
MarginRadius == 900
VeloOnsetRadius == 200
DomeHeight == 500
VeloSlope == 100
MeltRate == 2
FracScale == 60

(* The input files.  Cell centres, in units of 25 m. *)
CellPts == { <<300, -200>>, <<1200, -200>>, <<1200, 0>>,
             <<1700, -200>>, <<2150, -200>>, <<2200, -200>> }
(* Field contents of an input file: see Fill *)
Fills == {0, 1, 2}
(* Edge and vertex arrays: <<xEdge, yEdge, xVertex, yVertex>> *)
AuxMeshes == { << <<750, 1200>>, <<-200, -100>>, <<350, 1450, 2180>>, <<-300, 100, 0>> >> }

Cells == DOMAIN xCell
Levels == 1..nVertLevels

---------------------------------------------------------------------------
(* Array helpers *)
Max(a, b) == IF a >= b THEN a ELSE b
Min(a, b) == IF a <= b THEN a ELSE b

RECURSIVE ArrayMin(_, _)
ArrayMin(a, n) == IF n = 1 THEN a[1] ELSE Min(ArrayMin(a, n - 1), a[n])
RECURSIVE ArrayMax(_, _)
ArrayMax(a, n) == IF n = 1 THEN a[1] ELSE Max(ArrayMax(a, n - 1), a[n])

min(a) == ArrayMin(a, Len(a))
max(a) == ArrayMax(a, Len(a))

Abs(v) == IF v < 0 THEN -v ELSE v

(* v ** 0.5, rounded down to the length unit: Newton's iteration from a *)
(* power of four above the root                                          *)
RECURSIVE SqrtUpper(_, _)
SqrtUpper(n, p) == IF p * p > n THEN p ELSE SqrtUpper(n, 4 * p)
RECURSIVE SqrtNewton(_, _)
SqrtNewton(n, g) ==
    LET h == (g + n \div g) \div 2
    IN  IF h >= g THEN g ELSE SqrtNewton(n, h)
Sqrt(n) == IF n = 0 THEN 0 ELSE SqrtNewton(n, SqrtUpper(n, 1))

(* ((x - cx)**2 + (y - cy)**2)**0.5, elementwise *)
Distance(x, y, cx, cy) ==
    [c \in DOMAIN x |-> Sqrt((x[c] - cx) * (x[c] - cx) + (y[c] - cy) * (y[c] - cy))]

(* A faulty argmin: the last index holding the minimum *)
RECURSIVE ArgMinLastFrom(_, _, _, _)
ArgMinLastFrom(a, i, n, best) ==
    IF i > n THEN best
    ELSE ArgMinLastFrom(a, i + 1, n, IF a[i] <= a[best] THEN i ELSE best)
ArgMinLast(a) == ArgMinLastFrom(a, 2, Len(a), 1)

(* numpy's argmin: the first index holding the minimum *)
RECURSIVE ArgMinFrom(_, _, _, _)
ArgMinFrom(a, i, n, best) ==
    IF i > n THEN best
    ELSE ArgMinFrom(a, i + 1, n, IF a[i] < a[best] THEN i ELSE best)
argmin(a) == ArgMinFrom(a, 2, Len(a), 1)

Shift(a, d) == [i \in DOMAIN a |-> a[i] + d]

---------------------------------------------------------------------------
(* The formulas of the radial fields *)

(* Faulty: r / r0 as an integer division *)
ThicknessFormulaIntDiv(rr) == DomeHeight * (r0 * r0 - ((rr \div r0) * (rr \div r0)) * r0 * r0)
(* 500.0 * (1.0 - (r / r0)**2), in units of 1 m / r0^2 *)
ThicknessFormula(rr) == DomeHeight * (r0 * r0 - rr * rr)

(* Faulty: line 80 left out *)
VeloUnclamped(rr) == (rr - VeloOnsetRadius) * VeloSlope
(* (r-5000.0)*100.0/3.14e7/22500.0, then velo[r<5000.0] = 0.0 *)
VeloFormula(rr) ==
    IF rr < VeloOnsetRadius THEN 0 ELSE (rr - VeloOnsetRadius) * VeloSlope

(* Faulty: the factor 0.0 left out *)
WaterThicknessEnabled(rr) == rr - VeloOnsetRadius
(* (r-5000.0)/r0 * 0.5 * 0.0, in units of 1 m / (2 * r0) *)
WaterThicknessFormula(rr) == (rr - VeloOnsetRadius) * 0

---------------------------------------------------------------------------
(* The file at the moment the script opens it *)
FileNow ==
    [ xCell |-> xCell, yCell |-> yCell, xEdge |-> xEdge, yEdge |-> yEdge,
      xVertex |-> xVertex, yVertex |-> yVertex,
      thickness |-> thickness, bedTopography |-> bedTopography,
      layerThicknessFractions |-> layerThicknessFractions,
      sfcMassBal |-> sfcMassBal, meltInput |-> meltInput,
      uReconstructX |-> uReconstructX, waterThickness |-> waterThickness ]

(* Contents a field may hold in an input file: all zeros (fill 0), or *)
(* nonzero values that differ from one element and one field to another. *)
Fill(f, salt, n) == [i \in 1..n |-> f * (salt + i)]

Init ==
    \E n \in 1..MaxCells, nv \in 1..MaxLevels, f \in Fills, aux \in AuxMeshes :
    \E pts \in [1..n -> CellPts] :
        /\ pc = "findCenter"
        /\ run = 1
        /\ nVertLevels = nv
        /\ xCell = [c \in 1..n |-> pts[c][1]]
        /\ yCell = [c \in 1..n |-> pts[c][2]]
        /\ xEdge = aux[1]
        /\ yEdge = aux[2]
        /\ xVertex = aux[3]
        /\ yVertex = aux[4]
        /\ thickness = Fill(f, 10, n)
        /\ bedTopography = Fill(f, 20, n)
        /\ layerThicknessFractions = Fill(f, 30, nv)
        /\ sfcMassBal = Fill(f, 40, n)
        /\ meltInput = Fill(f, 50, n)
        /\ uReconstructX = [c \in 1..n |-> Fill(f, 60 + 5 * c, nv)]
        /\ waterThickness = Fill(f, 80, n)
        /\ x0 = 0 /\ y0 = 0
        /\ r = [c \in 1..n |-> 0]
        /\ centerCellIndex = 0
        /\ xShift = 0 /\ yShift = 0
        /\ velo = [c \in 1..n |-> 0]
        /\ written = {}
        /\ input = [ xCell |-> [c \in 1..n |-> pts[c][1]],
                     yCell |-> [c \in 1..n |-> pts[c][2]],
                     xEdge |-> aux[1], yEdge |-> aux[2],
                     xVertex |-> aux[3], yVertex |-> aux[4],
                     thickness |-> Fill(f, 10, n),
                     bedTopography |-> Fill(f, 20, n),
                     layerThicknessFractions |-> Fill(f, 30, nv),
                     sfcMassBal |-> Fill(f, 40, n),
                     meltInput |-> Fill(f, 50, n),
                     uReconstructX |-> [c \in 1..n |-> Fill(f, 60 + 5 * c, nv)],
                     waterThickness |-> Fill(f, 80, n) ]
        /\ firstCenter = 0

---------------------------------------------------------------------------
(* The statements of the script, in order *)

(* lines 35-38 *)
FindCenter ==
    /\ pc = "findCenter"
    /\ LET cx == min(xCell) + (max(xCell) - min(xCell)) \div 2
           cy == min(yCell) + (max(yCell) - min(yCell)) \div 2
       IN  /\ x0' = cx
           /\ y0' = cy
           /\ r' = Distance(xCell, yCell, cx, cy)
    /\ pc' = "computeShift"
    /\ UNCHANGED <<coords, fields, consts, centerCellIndex, xShift, yShift, velo, written>>

(* lines 44-47 *)
ComputeShift ==
    /\ pc = "computeShift"
    /\ LET c == argmin([i \in DOMAIN r |-> Abs(r[i])])
       IN  /\ centerCellIndex' = c
           /\ xShift' = (-1) * xCell[c]
           /\ yShift' = (-1) * yCell[c]
           /\ firstCenter' = IF run = 1 THEN c ELSE firstCenter
    /\ pc' = "applyShift"
    /\ UNCHANGED <<coords, fields, run, nVertLevels, input, x0, y0, r, velo, written>>

(* Faulty: xVertex shifted by yShift *)
ApplyShiftAxesMixed ==
    /\ pc = "applyShift"
    /\ xCell' = Shift(xCell, xShift)
    /\ yCell' = Shift(yCell, yShift)
    /\ xEdge' = Shift(xEdge, xShift)
    /\ yEdge' = Shift(yEdge, yShift)
    /\ xVertex' = Shift(xVertex, yShift)
    /\ yVertex' = Shift(yVertex, yShift)
    /\ pc' = "resetOrigin"
    /\ UNCHANGED <<fields, consts, locals, written>>

(* lines 48-53 *)
ApplyShift ==
    /\ pc = "applyShift"
    /\ xCell' = Shift(xCell, xShift)
    /\ yCell' = Shift(yCell, yShift)
    /\ xEdge' = Shift(xEdge, xShift)
    /\ yEdge' = Shift(yEdge, yShift)
    /\ xVertex' = Shift(xVertex, xShift)
    /\ yVertex' = Shift(yVertex, yShift)
    /\ pc' = "resetOrigin"
    /\ UNCHANGED <<fields, consts, locals, written>>

(* lines 55-57 *)
ResetOrigin ==
    /\ pc = "resetOrigin"
    /\ x0' = 0
    /\ y0' = 0
    /\ r' = Distance(xCell, yCell, 0, 0)
    /\ pc' = "thicknessFormula"
    /\ UNCHANGED <<coords, fields, consts, centerCellIndex, xShift, yShift, velo, written>>

(* Faulty: line 61 as += *)
ThicknessFormulaWriteAccumulate ==
    /\ pc = "thicknessFormula"
    /\ thickness' = [c \in Cells |->
           IF r[c] < r0 THEN thickness[c] + ThicknessFormula(r[c]) ELSE thickness[c]]
    /\ written' = written \cup {<<"thickness", c, 0>> : c \in {d \in Cells : r[d] < r0}}
    /\ pc' = "thicknessMargin"
    /\ UNCHANGED <<coords, consts, locals, bedTopography, layerThicknessFractions,
                   sfcMassBal, meltInput, uReconstructX, waterThickness>>

(* line 61: thickness[0, r<r0] = 500.0 * (1.0 - (r[r<r0] / r0)**2) *)
ThicknessFormulaWrite ==
    /\ pc = "thicknessFormula"
    /\ thickness' = [c \in Cells |->
           IF r[c] < r0 THEN ThicknessFormula(r[c]) ELSE thickness[c]]
    /\ written' = written \cup {<<"thickness", c, 0>> : c \in {d \in Cells : r[d] < r0}}
    /\ pc' = "thicknessMargin"
    /\ UNCHANGED <<coords, consts, locals, bedTopography, layerThicknessFractions,
                   sfcMassBal, meltInput, uReconstructX, waterThickness>>

(* Faulty: line 62 with the mask r > r0 *)
ThicknessMarginWriteBeyondR0 ==
    /\ pc = "thicknessMargin"
    /\ thickness' = [c \in Cells |-> IF r[c] > r0 THEN 0 ELSE thickness[c]]
    /\ written' = written \cup {<<"thickness", c, 0>> : c \in {d \in Cells : r[d] > r0}}
    /\ pc' = "bedTopography"
    /\ UNCHANGED <<coords, consts, locals, bedTopography, layerThicknessFractions,
                   sfcMassBal, meltInput, uReconstructX, waterThickness>>

(* line 62: thickness[0, r>22500.0] = 0.0 *)
ThicknessMarginWrite ==
    /\ pc = "thicknessMargin"
    /\ thickness' = [c \in Cells |-> IF r[c] > MarginRadius THEN 0 ELSE thickness[c]]
    /\ written' = written \cup
           {<<"thickness", c, 0>> : c \in {d \in Cells : r[d] > MarginRadius}}
    /\ pc' = "bedTopography"
    /\ UNCHANGED <<coords, consts, locals, bedTopography, layerThicknessFractions,
                   sfcMassBal, meltInput, uReconstructX, waterThickness>>

(* Faulty: line 66 assigning to SMB *)
SetBedTopographyOnSMB ==
    /\ pc = "bedTopography"
    /\ sfcMassBal' = [c \in Cells |-> 0]
    /\ written' = written \cup {<<"sfcMassBal", c, 0>> : c \in Cells}
    /\ pc' = "layerThicknessFractions"
    /\ UNCHANGED <<coords, consts, locals, thickness, layerThicknessFractions,
                   bedTopography, meltInput, uReconstructX, waterThickness>>

(* line 66: bedTopography[:] = 0.0 *)
SetBedTopography ==
    /\ pc = "bedTopography"
    /\ bedTopography' = [c \in Cells |-> 0]
    /\ written' = written \cup {<<"bedTopography", c, 0>> : c \in Cells}
    /\ pc' = "layerThicknessFractions"
    /\ UNCHANGED <<coords, consts, locals, thickness, layerThicknessFractions,
                   sfcMassBal, meltInput, uReconstructX, waterThickness>>

(* line 69: layerThicknessFractions[:] = 1.0 / nVertLevels *)
SetLayerThicknessFractions ==
    /\ pc = "layerThicknessFractions"
    /\ layerThicknessFractions' = [l \in Levels |-> FracScale \div nVertLevels]
    /\ written' = written \cup {<<"layerThicknessFractions", l, 0>> : l \in Levels}
    /\ pc' = "meltInput"
    /\ UNCHANGED <<coords, consts, locals, thickness, bedTopography,
                   sfcMassBal, meltInput, uReconstructX, waterThickness>>

(* lines 72-73: meltInput[:] = 0.0, then meltInput[:] = 0.0002 *)
SetMeltInput ==
    /\ pc = "meltInput"
    /\ LET cleared == [c \in Cells |-> 0]
       IN  meltInput' = [c \in DOMAIN cleared |-> MeltRate]
    /\ written' = written \cup {<<"meltInput", c, 0>> : c \in Cells}
    /\ pc' = "velo"
    /\ UNCHANGED <<coords, consts, locals, thickness, bedTopography,
                   layerThicknessFractions, sfcMassBal, uReconstructX, waterThickness>>

(* lines 78-80 *)
ComputeVelo ==
    /\ pc = "velo"
    /\ velo' = [c \in Cells |-> VeloFormula(r[c])]
    /\ pc' = "writeVelocity"
    /\ UNCHANGED <<coords, fields, consts, x0, y0, r, centerCellIndex, xShift, yShift,
                   written>>

(* Faulty: line 81 restricted to the cells with r >= 5000.0 *)
WriteVelocityWhereMoving ==
    /\ pc = "writeVelocity"
    /\ uReconstructX' = [c \in Cells |-> [l \in Levels |->
           IF l = nVertLevels /\ r[c] >= VeloOnsetRadius
           THEN velo[c] ELSE uReconstructX[c][l]]]
    /\ written' = written \cup {<<"uReconstructX", c, nVertLevels>> : c \in Cells}
    /\ pc' = "maskVelocity"
    /\ UNCHANGED <<coords, consts, locals, thickness, bedTopography,
                   layerThicknessFractions, sfcMassBal, meltInput, waterThickness>>

(* Faulty: line 81 written to every level *)
WriteVelocityAllLevels ==
    /\ pc = "writeVelocity"
    /\ uReconstructX' = [c \in Cells |-> [l \in Levels |-> velo[c]]]
    /\ written' = written \cup {<<"uReconstructX", c, l>> : c \in Cells, l \in Levels}
    /\ pc' = "maskVelocity"
    /\ UNCHANGED <<coords, consts, locals, thickness, bedTopography,
                   layerThicknessFractions, sfcMassBal, meltInput, waterThickness>>

(* line 81: uReconstructX[0,:,-1] = velo *)
WriteVelocity ==
    /\ pc = "writeVelocity"
    /\ uReconstructX' = [c \in Cells |-> [l \in Levels |->
           IF l = nVertLevels THEN velo[c] ELSE uReconstructX[c][l]]]
    /\ written' = written \cup {<<"uReconstructX", c, nVertLevels>> : c \in Cells}
    /\ pc' = "maskVelocity"
    /\ UNCHANGED <<coords, consts, locals, thickness, bedTopography,
                   layerThicknessFractions, sfcMassBal, meltInput, waterThickness>>

(* line 82: uReconstructX[0, thickness[0,:]==0.0, :] = 0.0 *)
MaskVelocity ==
    /\ pc = "maskVelocity"
    /\ uReconstructX' = [c \in Cells |-> [l \in Levels |->
           IF thickness[c] = 0 THEN 0 ELSE uReconstructX[c][l]]]
    /\ written' = written \cup
           {<<"uReconstructX", c, l>> : c \in {d \in Cells : thickness[d] = 0}, l \in Levels}
    /\ pc' = "waterThickness"
    /\ UNCHANGED <<coords, consts, locals, thickness, bedTopography,
                   layerThicknessFractions, sfcMassBal, meltInput, waterThickness>>

(* line 85: waterThickness[0,:] = (r-5000.0)/r0 * 0.5 * 0.0 *)
SetWaterThickness ==
    /\ pc = "waterThickness"
    /\ waterThickness' = [c \in Cells |-> WaterThicknessFormula(r[c])]
    /\ written' = written \cup {<<"waterThickness", c, 0>> : c \in Cells}
    /\ pc' = "close"
    /\ UNCHANGED <<coords, consts, locals, thickness, bedTopography,
                   layerThicknessFractions, sfcMassBal, meltInput, uReconstructX>>

(* line 89: gridfile.close() *)
Close ==
    /\ pc = "close"
    /\ pc' = "done"
    /\ UNCHANGED <<coords, fields, consts, locals, written>>

(* The script is started again on the file it has just written: lines 19-31 *)
(* open the file and look the variables up; every local starts afresh.      *)
Rerun ==
    /\ pc = "done"
    /\ run = 1
    /\ run' = run + 1
    /\ input' = FileNow
    /\ pc' = "findCenter"
    /\ x0' = 0 /\ y0' = 0
    /\ r' = [c \in Cells |-> 0]
    /\ centerCellIndex' = 0
    /\ xShift' = 0 /\ yShift' = 0
    /\ velo' = [c \in Cells |-> 0]
    /\ written' = {}
    /\ UNCHANGED <<coords, fields, nVertLevels, firstCenter>>

Next ==
    \/ FindCenter
    \/ ComputeShift
    \/ ApplyShift
    \/ ResetOrigin
    \/ ThicknessFormulaWrite
    \/ ThicknessMarginWrite
    \/ SetBedTopography
    \/ SetLayerThicknessFractions
    \/ SetMeltInput
    \/ ComputeVelo
    \/ WriteVelocity
    \/ MaskVelocity
    \/ SetWaterThickness
    \/ Close
    \/ Rerun

Spec == Init /\ [][Next]_vars

---------------------------------------------------------------------------
(* Properties *)

Done == pc = "done"
(* The statements after lines 48-53, and those after lines 55-57 *)
Recentred == pc \in {"thicknessFormula", "thicknessMargin", "bedTopography",
                     "layerThicknessFractions", "meltInput", "velo", "writeVelocity",
                     "maskVelocity", "waterThickness", "close", "done"}
Shifted == pc = "resetOrigin" \/ Recentred

(* The centre the specification describes, from the file as the run found it: *)
(* the cell nearest the midpoint of the bounding box of the cell coordinates, *)
(* the lowest index among the nearest.                                        *)
SetMin(S) == CHOOSE v \in S : \A w \in S : v <= w
SetMax(S) == CHOOSE v \in S : \A w \in S : v >= w
Range(a) == {a[i] : i \in DOMAIN a}
MidDistances ==
    LET xs == Range(input.xCell)
        ys == Range(input.yCell)
        mx == SetMin(xs) + (SetMax(xs) - SetMin(xs)) \div 2
        my == SetMin(ys) + (SetMax(ys) - SetMin(ys)) \div 2
    IN  [c \in Cells |-> Sqrt((input.xCell[c] - mx) * (input.xCell[c] - mx)
                              + (input.yCell[c] - my) * (input.yCell[c] - my))]
Nearest == LET dist == MidDistances
               least == SetMin(Range(dist))
           IN  {c \in Cells : dist[c] = least}
Centre == SetMin(Nearest)
(* The radial distance of each cell from that centre *)
Radials ==
    LET cx == input.xCell[Centre]
        cy == input.yCell[Centre]
    IN  [c \in Cells |-> Sqrt((input.xCell[c] - cx) * (input.xCell[c] - cx)
                              + (input.yCell[c] - cy) * (input.yCell[c] - cy))]

(* C1: once the coordinates are shifted, the cell nearest the midpoint of the *)
(* bounding box of the original cell coordinates (the lowest index among the  *)
(* nearest) has coordinate exactly (0, 0), and radial distance 0 once r is    *)
(* recomputed.                                                                *)
C1_CentreAtOrigin ==
    Shifted =>
        LET c == Centre
        IN  /\ xCell[c] = 0
            /\ yCell[c] = 0
            /\ Recentred => r[c] = 0

(* C1 witness: a finished first run on a mesh where another cell, at another *)
(* place, is as near the midpoint as the centre, and the centre was not at   *)
(* the origin.                                                               *)
C1_Witness ==
    /\ Done /\ run = 1
    /\ LET c == Centre
       IN  /\ input.xCell[c] # 0 /\ input.yCell[c] # 0
           /\ \E d \in Nearest : input.xCell[d] # input.xCell[c]
           /\ xCell[c] = 0 /\ yCell[c] = 0 /\ r[c] = 0

(* C2: recentering is a rigid shift: the translation is minus the centre    *)
(* cell's coordinate as it was before any coordinate changed, every cell,   *)
(* edge and vertex coordinate is its original value plus that translation,  *)
(* and the difference between any two mesh points (cells, edges and         *)
(* vertices alike) is unchanged.                                            *)
C2_RigidShift ==
    Shifted =>
        LET nowX == xCell \o xEdge \o xVertex
            nowY == yCell \o yEdge \o yVertex
            wasX == input.xCell \o input.xEdge \o input.xVertex
            wasY == input.yCell \o input.yEdge \o input.yVertex
        IN  /\ xShift = -input.xCell[centerCellIndex]
            /\ yShift = -input.yCell[centerCellIndex]
            /\ \A p \in DOMAIN wasX :
                  /\ nowX[p] = wasX[p] + xShift
                  /\ nowY[p] = wasY[p] + yShift
            /\ \A p, q \in DOMAIN wasX :
                  /\ nowX[p] - nowX[q] = wasX[p] - wasX[q]
                  /\ nowY[p] - nowY[q] = wasY[p] - wasY[q]

(* C2 witness: a finished first run whose translation moved both axes, by *)
(* different amounts, on a mesh with several cells.                       *)
C2_Witness ==
    /\ Done /\ run = 1
    /\ Len(xCell) >= 2
    /\ xShift # 0 /\ yShift # 0 /\ xShift # yShift
    /\ xVertex # input.xVertex /\ yEdge # input.yEdge

(* C3 as stated: after the run the thickness of a cell is 0.0 when         *)
(* r > 22500.0 and 500.0 * (1 - (r/25000.0)^2) when r <= 22500.0, and no   *)
(* cell keeps the thickness value it had in the input file.                *)
C3_AsStated ==
    Done => \A c \in Cells :
        /\ r[c] > 900 => thickness[c] = 0
        /\ r[c] <= 900 => thickness[c] = 500 * (1000 * 1000 - r[c] * r[c])
        /\ thickness[c] # input.thickness[c]

(* C3: after the run the thickness of a cell is 0.0 when r > 22500.0 and   *)
(* 500.0 * (1 - (r/25000.0)^2) when r <= 22500.0, and the run has written  *)
(* the thickness of every cell (the value written may equal the value the  *)
(* input file held).                                                       *)
C3_Thickness ==
    Done => \A c \in Cells :
        /\ r[c] > 900 => thickness[c] = 0
        /\ r[c] <= 900 => thickness[c] = 500 * (1000 * 1000 - r[c] * r[c])
        /\ <<"thickness", c, 0>> \in written

(* C3 witness: a finished run with a cell in the band 22500 < r < 25000,   *)
(* whose input thickness was not zero, a cell at r = 25000 or beyond and a *)
(* cell inside the margin.                                                 *)
C3_Witness ==
    /\ Done
    /\ \E c \in Cells : r[c] > 900 /\ r[c] < 1000 /\ input.thickness[c] # 0
                         /\ thickness[c] = 0
    /\ \E c \in Cells : r[c] <= 900 /\ thickness[c] > 0

(* C4 as stated: for any two cells with r1 < r2 < r0 the thickness of the *)
(* first is strictly greater than the thickness of the second.            *)
C4_AsStated ==
    Done => \A c, d \in Cells :
        (r[c] < r[d] /\ r[d] < 1000) => thickness[c] > thickness[d]

(* C4: the thickness is strictly decreasing in r up to the margin: for any *)
(* two cells with r1 < r2 < r0 and r1 <= 22500.0 the thickness of the      *)
(* first is strictly greater than the thickness of the second.             *)
C4_DecreasingToMargin ==
    Done => \A c, d \in Cells :
        (r[c] < r[d] /\ r[d] < 1000 /\ r[c] <= 900) => thickness[c] > thickness[d]

(* C4 witness: a finished run with two cells off the centre, at different *)
(* radial distances inside the margin.                                    *)
C4_Witness ==
    /\ Done
    /\ \E c, d \in Cells :
          /\ 0 < r[c] /\ r[c] < r[d] /\ r[d] <= 900
          /\ thickness[c] > thickness[d]

(* C5: after the run the top-level velocity of a cell is 0.0 if r < 5000.0 *)
(* or if its final thickness is 0.0, and (r - 5000.0) * 100.0 / 3.14e7 /   *)
(* 22500.0 otherwise.                                                      *)
C5_Velocity ==
    Done => \A c \in Cells :
        uReconstructX[c][nVertLevels] =
            IF r[c] < 200 \/ thickness[c] = 0 THEN 0 ELSE (r[c] - 200) * 100

(* C5 witness: a finished run with a cell nearer than 5000, a cell with ice *)
(* and a velocity that is not zero, and a cell without ice whose velocity   *)
(* by the formula would not be zero.                                        *)
C5_Witness ==
    /\ Done
    /\ \E c \in Cells : r[c] < 200 /\ input.uReconstructX[c][nVertLevels] # 0
    /\ \E c \in Cells : r[c] > 200 /\ thickness[c] # 0
                         /\ uReconstructX[c][nVertLevels] > 0
    /\ \E c \in Cells : r[c] > 200 /\ thickness[c] = 0
                         /\ uReconstructX[c][nVertLevels] = 0

(* C6 as stated: at every level but the last, the velocity of every cell *)
(* is what the input file held.                                          *)
C6_AsStated ==
    Done => \A c \in Cells : \A l \in Levels :
        l # nVertLevels => uReconstructX[c][l] = input.uReconstructX[c][l]

(* C6: at every level but the last, the velocity of a cell whose final     *)
(* thickness is not 0.0 is what the input file held, and the velocity of a *)
(* cell whose final thickness is 0.0 is 0.0.                               *)
C6_LowerLevels ==
    Done => \A c \in Cells : \A l \in Levels :
        l # nVertLevels =>
            uReconstructX[c][l] =
                IF thickness[c] = 0 THEN 0 ELSE input.uReconstructX[c][l]

(* C6 witness: a finished run on two levels, whose input held velocities   *)
(* that were not zero, with a cell that has ice and a cell that has none.  *)
C6_Witness ==
    /\ Done /\ nVertLevels >= 2
    /\ \E c \in Cells : thickness[c] # 0 /\ uReconstructX[c][1] # 0
    /\ \E c \in Cells : thickness[c] = 0 /\ input.uReconstructX[c][1] # 0
                         /\ uReconstructX[c][1] = 0

WrittenVariables == {w[1] : w \in written}

(* C7 as stated: a completed run has written every required field variable, *)
(* sfcMassBal among them.                                                    *)
C7_AsStated ==
    Done => {"thickness", "bedTopography", "layerThicknessFractions", "sfcMassBal",
             "meltInput", "uReconstructX", "waterThickness"} \subseteq WrittenVariables

(* C7: a completed run has written thickness, bedTopography,               *)
(* layerThicknessFractions, meltInput, uReconstructX and waterThickness;   *)
(* sfcMassBal is looked up and never written, and holds its input values.  *)
C7_FieldsWritten ==
    Done =>
        /\ {"thickness", "bedTopography", "layerThicknessFractions",
            "meltInput", "uReconstructX", "waterThickness"} \subseteq WrittenVariables
        /\ "sfcMassBal" \notin WrittenVariables
        /\ sfcMassBal = input.sfcMassBal

(* C7 witness: a finished first run on a file whose surface mass balance *)
(* and bed topography were not zero.                                     *)
C7_Witness ==
    /\ Done /\ run = 1
    /\ \A c \in Cells : sfcMassBal[c] # 0 /\ input.bedTopography[c] # 0
                         /\ bedTopography[c] = 0

(* C8: after the run waterThickness is 0.0 for every cell, whatever its *)
(* radial distance and whatever the input file held.                    *)
C8_WaterThicknessZero ==
    Done => \A c \in Cells : waterThickness[c] = 0

(* C8 witness: a finished run with cells at r = 0, r = 5000 and r = 25000 *)
(* on a file whose water thickness was nowhere zero.                      *)
C8_Witness ==
    /\ Done
    /\ \A c \in Cells : input.waterThickness[c] # 0
    /\ \E c \in Cells : r[c] = 0
    /\ \E c \in Cells : r[c] = 200
    /\ \E c \in Cells : r[c] = 1000

(* C9: the written fields are a function of the mesh geometry and of      *)
(* nVertLevels alone: whatever the input file held in its fields, after   *)
(* the run each written field has the value the original cell coordinates *)
(* determine.                                                             *)
C9_GeometryAlone ==
    Done =>
        LET rad == Radials
        IN  /\ \A c \in Cells :
                  /\ thickness[c] = IF rad[c] > 900 THEN 0
                                    ELSE 500 * (1000 * 1000 - rad[c] * rad[c])
                  /\ bedTopography[c] = 0
                  /\ meltInput[c] = 2
                  /\ uReconstructX[c][nVertLevels] =
                        IF rad[c] < 200 \/ rad[c] > 900 THEN 0
                        ELSE (rad[c] - 200) * 100
                  /\ waterThickness[c] = 0
            /\ \A l \in Levels : layerThicknessFractions[l] * nVertLevels = 60

(* C9 witness: a finished first run on several cells whose input fields *)
(* all differed from what the run wrote.                                *)
C9_Witness ==
    /\ Done /\ run = 1 /\ Len(xCell) >= 2
    /\ \A c \in Cells :
          /\ input.thickness[c] # thickness[c]
          /\ input.bedTopography[c] # bedTopography[c]
          /\ input.meltInput[c] # meltInput[c]
          /\ input.uReconstructX[c][nVertLevels] # uReconstructX[c][nVertLevels]
          /\ input.waterThickness[c] # waterThickness[c]
    /\ \A l \in Levels : input.layerThicknessFractions[l] # layerThicknessFractions[l]

====
